---- MODULE Spec2Model ----
(***************************************************************************)
(* mrinversion.linear_model.fista_lasso: the LassoFista and LassoFistaCV   *)
(* estimators and the fold splitter test_train_set.                        *)
(*                                                                         *)
(* Numbers.  Kernel entries and raw signal entries are integers.  The      *)
(* signal norm is a square root, so a normalised signal entry x / sqrt(r)  *)
(* is kept exactly as the record Quot(x, r).  The compiled solvers         *)
(* fista.fista and fista_cv.fista are not part of the Python source; the   *)
(* array a solver call writes is kept as the term of that call (its        *)
(* arguments), so two solutions are equal exactly when they come from      *)
(* calls with equal arguments.                                             *)
(*                                                                         *)
(* Arrays.  A numpy array is [shape, data] with data in row-major order;   *)
(* indices are 0-based as in the source.                                   *)
(***************************************************************************)
EXTENDS Integers, Sequences, FiniteSets, TLC

VARIABLES self, ctor, last, fits, split

vars == <<self, ctor, last, fits, split>>

----------------------------------------------------------------------------
(* Bounds of the model. *)

\* largest sample count given to test_train_set
MaxN == 4
\* largest fold count given to test_train_set
MaxFolds == 4
\* largest sample count given to test_train_set with random = True
MaxShuffleN == 3
\* largest repeat count given to test_train_set
MaxRepeat == 2
\* largest aggregated error a cross-validation solve reports
MaxErr == 1
\* longest grid for which every error surface is drawn
MaxFullGrid == 2
\* largest number of fit calls made on one instance
MaxFits == 2

----------------------------------------------------------------------------
(* Small helpers. *)

Min(a, b) == IF a <= b THEN a ELSE b

Max(a, b) == IF a >= b THEN a ELSE b

Range(q) == {q[e] : e \in DOMAIN q}

NoDup(q) == \A a, b \in DOMAIN q : a # b => q[a] # q[b]

\* all orders of the indices 0..n-1, the arrays np.random.shuffle can leave
Permutations0(n) ==
    {p \in [1..n -> 0..(n - 1)] : \A a, b \in 1..n : a # b => p[a] # p[b]}

\* np.arange(n)
arange(n) == [e \in 1..n |-> e - 1]

\* a[lo:hi] of a 1-d array (Python clamps the bounds to the length)
Slice(a, lo, hi) == SubSeq(a, Min(lo, Len(a)) + 1, Min(hi, Len(a)))

\* a[start::step], step > 0
Stride(a, start, step) ==
    LET cnt == IF start >= Len(a) THEN 0 ELSE (Len(a) - start + step - 1) \div step
    IN  [e \in 1..cnt |-> a[start + (e - 1) * step + 1]]

\* np.delete(a, obj): a without the positions listed in obj
npdelete(a, obj) ==
    LET keep[e \in 0..Len(a)] ==
            IF e = 0 THEN <<>>
            ELSE IF (e - 1) \in Range(obj) THEN keep[e - 1]
                 ELSE Append(keep[e - 1], a[e])
    IN  keep[Len(a)]

----------------------------------------------------------------------------
(* Arrays. *)

Array(shape, data) == [k |-> "ndarray", shape |-> shape, data |-> data]

ndim(A) == Len(A.shape)

\* number of rows / columns of a 2-d array
NRows(A) == A.shape[1]

NCols(A) == A.shape[2]

\* row i (0-based) of a 2-d array, as a sequence
RowOf(A, i) == [c \in 1..NCols(A) |-> A.data[i * NCols(A) + c]]

\* column j (0-based) of a 2-d array, as a sequence
ColOf(A, j) == [r \in 1..NRows(A) |-> A.data[(r - 1) * NCols(A) + j + 1]]

\* s_[:, np.newaxis]: a 1-d array of length m becomes (m, 1)
newaxis(A) == Array(<<A.shape[1], 1>>, A.data)

\* np.squeeze: axes of length one are dropped, the data is untouched
squeeze(A) == Array(SelectSeq(A.shape, LAMBDA d : d # 1), A.data)

\* the exact real x / sqrt(r); r = 1 is the plain number x
Quot(x, r) == [num |-> x, rad |-> r]

\* 0.0, an entry of np.zeros
ZeroReal == Quot(0, 1)

\* number of entries of an array of the given shape
Size(shape) == IF Len(shape) = 0 THEN 1
               ELSE IF Len(shape) = 1 THEN shape[1] ELSE shape[1] * shape[2]

\* np.zeros(shape)
zeros(shape) == Array(shape, [e \in 1..Size(shape) |-> ZeroReal])

\* A.T: a 2-d array is transposed, a 0-d or 1-d array is left as it is
transpose(A) ==
    IF ndim(A) < 2 THEN A
    ELSE Array(<<NCols(A), NRows(A)>>,
               [e \in 1..Len(A.data) |->
                    A.data[((e - 1) % NRows(A)) * NCols(A) + ((e - 1) \div NRows(A)) + 1]])

\* the shape padded on the left with ones to two axes (numpy broadcasting)
Shape2(A) == IF ndim(A) = 0 THEN <<1, 1>>
             ELSE IF ndim(A) = 1 THEN <<1, A.shape[1]>> ELSE A.shape

\* whether two arrays broadcast against each other
Broadcastable(A, B) ==
    \A ax \in 1..2 : \/ Shape2(A)[ax] = Shape2(B)[ax]
                     \/ Shape2(A)[ax] = 1
                     \/ Shape2(B)[ax] = 1

\* entry (i, j) of A seen through broadcasting to two axes
BAt(A, i, j) ==
    LET sh == Shape2(A)
        ii == IF sh[1] = 1 THEN 0 ELSE i
        jj == IF sh[2] = 1 THEN 0 ELSE j
    IN  A.data[ii * sh[2] + jj + 1]

\* the real a - b
Sub(a, b) == [k |-> "sub", a |-> a, b |-> b]

\* A - B with numpy broadcasting (the operands are broadcastable)
subtract(A, B) ==
    LET d1 == IF Shape2(A)[1] = 1 THEN Shape2(B)[1] ELSE Shape2(A)[1]
        d2 == IF Shape2(A)[2] = 1 THEN Shape2(B)[2] ELSE Shape2(A)[2]
        nd == Max(ndim(A), ndim(B))
        sh == IF nd = 2 THEN <<d1, d2>> ELSE IF nd = 1 THEN <<d2>> ELSE <<>>
    IN  Array(sh, [e \in 1..(d1 * d2) |->
                     Sub(BAt(A, (e - 1) \div d2, (e - 1) % d2),
                         BAt(B, (e - 1) \div d2, (e - 1) % d2))])

\* the real sum over l of coef[l] * x[l]
DotTerm(coef, x) == [k |-> "dot", coef |-> coef, x |-> x]

\* whether np.dot(K, f) is defined for a 2-d K
Dottable(K, f) == ndim(f) = 0 \/ f.shape[1] = NCols(K)

\* np.dot(K, f) for a 2-d K and a 0-d, 1-d or 2-d f
dot(K, f) ==
    IF ndim(f) = 0
    THEN Array(K.shape, [e \in 1..Len(K.data) |-> DotTerm(<<K.data[e]>>, f.data)])
    ELSE IF ndim(f) = 1
    THEN Array(<<NRows(K)>>, [e \in 1..NRows(K) |-> DotTerm(RowOf(K, e - 1), f.data)])
    ELSE Array(<<NRows(K), NCols(f)>>,
               [e \in 1..(NRows(K) * NCols(f)) |->
                    DotTerm(RowOf(K, (e - 1) \div NCols(f)), ColOf(f, (e - 1) % NCols(f)))])

\* sum of the squares of a sequence of integers
RECURSIVE SumSq(_)
SumSq(q) == IF q = <<>> THEN 0 ELSE Head(q) * Head(q) + SumSq(Tail(q))

----------------------------------------------------------------------------
(* test_train_set: the fold splitter. *)

\* np.int(index.size / folds)
test_size(n, folds) == n \div folds

\* index.size % folds
remainder(n, folds) == n % folds

\* index.size - test_size
train_size(n, folds) == n - test_size(n, folds)

\* positions of the i-th held-out block in a shuffled index
set_index(i, n, folds) ==
    LET ts == test_size(n, folds)
        m  == remainder(n, folds)
    IN  IF i < m
        THEN [e \in 1..(ts + 1) |-> i * (ts + 1) + e - 1]
        ELSE [e \in 1..ts |-> i * ts + m + e - 1]

\* a faulty variant of test_index: the first folds get no extra sample
test_index_noextra(index, i, folds, random) ==
    IF random
    THEN Slice(index, i * test_size(Len(index), folds) + remainder(Len(index), folds),
               (i + 1) * test_size(Len(index), folds) + remainder(Len(index), folds))
    ELSE Slice(Stride(index, i, folds), 0, test_size(Len(index), folds))

\* a faulty variant of test_index: the unshuffled folds are contiguous blocks
test_index_blocks(index, i, folds, random) ==
    IF i < remainder(Len(index), folds)
    THEN Slice(index, i * (test_size(Len(index), folds) + 1),
               (i + 1) * (test_size(Len(index), folds) + 1))
    ELSE Slice(index, i * test_size(Len(index), folds) + remainder(Len(index), folds),
               (i + 1) * test_size(Len(index), folds) + remainder(Len(index), folds))

\* the held-out samples of fold i
test_index(index, i, folds, random) ==
    LET n  == Len(index)
        ts == test_size(n, folds)
        m  == remainder(n, folds)
    IN  IF random
        THEN IF i < m
             THEN Slice(index, i * (ts + 1), (i + 1) * (ts + 1))
             ELSE Slice(index, i * ts + m, (i + 1) * ts + m)
        ELSE IF i < m
             THEN Slice(Stride(index, i, folds), 0, ts + 1)
             ELSE Slice(Stride(index, i, folds), 0, ts)

\* a faulty variant of train_index: the shuffled branch deletes by value
train_index_byvalue(index, i, folds, random) ==
    npdelete(index, test_index(index, i, folds, random))

\* the training samples of fold i
train_index(index, i, folds, random) ==
    IF random
    THEN npdelete(index, set_index(i, Len(index), folds))
    ELSE npdelete(index, test_index(index, i, folds, random))

\* X[idx]: the rows listed in idx, X given as its sequence of rows
TakeRows(rows, idx) == [e \in 1..Len(idx) |-> rows[idx[e] + 1]]

\* a faulty variant of PadRows: the rows are written at the end of the slice
PadRows_leading(rows, size, cols, zero) ==
    [r \in 1..size |-> IF r > size - Len(rows)
                       THEN rows[r - (size - Len(rows))]
                       ELSE [c \in 1..cols |-> zero]]

\* a slice of np.zeros with its first rows overwritten
PadRows(rows, size, cols, zero) ==
    [r \in 1..size |-> IF r <= Len(rows) THEN rows[r] ELSE [c \in 1..cols |-> zero]]

\* a faulty variant of IndexOfRepeat: the unshuffled index is left reversed
\* by every other repeat
IndexOfRepeat_reversed(n, random, shuffles, j) ==
    IF random THEN shuffles[j + 1]
    ELSE IF j % 2 = 1 THEN [e \in 1..n |-> n - e] ELSE arange(n)

\* the index array in force during repeat j (0-based)
IndexOfRepeat(n, random, shuffles, j) ==
    IF random THEN shuffles[j + 1] ELSE arange(n)

\* lines 311-321 and 346-350: the four tensors, given the rows of X and y
\* and the index arrays tr[q], te[q] of every slot q.
\* A tensor is [shape, sl]: sl[q+1] is the slice [:, :, q], a sequence of rows.
\* The result also records the index arrays of every slot.
fold_tensors(xrows, yrows, xcols, ycols, folds, slots, tr, te) ==
    IF \E q \in 1..slots : \E e \in Range(tr[q]) \cup Range(te[q]) : e >= Len(yrows)
    THEN [raised |-> "IndexError"]
    ELSE IF \E q \in 1..slots :
               \/ Len(tr[q]) > train_size(Len(xrows), folds)
               \/ Len(te[q]) > test_size(Len(xrows), folds) + 1
    THEN [raised |-> "ValueError"]
    ELSE [raised |-> "no",
          k_train |-> [shape |-> <<train_size(Len(xrows), folds), xcols, slots>>,
                       sl |-> [q \in 1..slots |->
                                 PadRows(TakeRows(xrows, tr[q]),
                                         train_size(Len(xrows), folds), xcols, 0)]],
          s_train |-> [shape |-> <<train_size(Len(xrows), folds), ycols, slots>>,
                       sl |-> [q \in 1..slots |->
                                 PadRows(TakeRows(yrows, tr[q]),
                                         train_size(Len(xrows), folds), ycols, ZeroReal)]],
          k_test  |-> [shape |-> <<test_size(Len(xrows), folds) + 1, xcols, slots>>,
                       sl |-> [q \in 1..slots |->
                                 PadRows(TakeRows(xrows, te[q]),
                                         test_size(Len(xrows), folds) + 1, xcols, 0)]],
          s_test  |-> [shape |-> <<test_size(Len(xrows), folds) + 1, ycols, slots>>,
                       sl |-> [q \in 1..slots |->
                                 PadRows(TakeRows(yrows, te[q]),
                                         test_size(Len(xrows), folds) + 1, ycols,
                                         ZeroReal)]],
          m |-> remainder(Len(xrows), folds),
          train_index |-> tr,
          test_index  |-> te]

\* test_train_set(X, y, folds, random, repeat_folds); shuffles[j+1] is the
\* index array np.random.shuffle leaves at the start of repeat j.
test_train_set(X, y, folds, random, repeat_folds, shuffles) ==
    IF folds = 0
    THEN [raised |-> "ZeroDivisionError"]
    ELSE fold_tensors(
           [r \in 1..NRows(X) |-> RowOf(X, r - 1)],
           [r \in 1..NRows(y) |-> RowOf(y, r - 1)],
           NCols(X), NCols(y), folds, folds * repeat_folds,
           [q \in 1..(folds * repeat_folds) |->
              train_index(IndexOfRepeat(NRows(X), random, shuffles, (q - 1) \div folds),
                          (q - 1) % folds, folds, random)],
           [q \in 1..(folds * repeat_folds) |->
              test_index(IndexOfRepeat(NRows(X), random, shuffles, (q - 1) \div folds),
                         (q - 1) % folds, folds, random)])

----------------------------------------------------------------------------
(* Values shared by the two estimators. *)

\* Python's None
None == [k |-> "None"]

\* a part of the state that takes no part in the specification at hand
Idle == [k |-> "idle"]

\* an attribute that was never assigned (reading it raises AttributeError)
Unset == [k |-> "unset"]

\* the application metadata of a dimension: present says the dict has the key
\* "com.github.deepanshs.mrinversion", keys are the keys of the dict stored
\* under it, log and label the values of its "log" and "label" entries
Application(keys, log, label) == [present |-> TRUE, keys |-> keys, log |-> log, label |-> label]

\* the application metadata {}
NoApplication == [present |-> FALSE, keys |-> {}, log |-> FALSE, label |-> ""]

\* a csdmpy dimension with its label, coordinates and application metadata
Dimension(label, application) ==
    [k |-> "Dimension", label |-> label, coords |-> "value", application |-> application]

\* cp.as_dimension(array=coords, label=label): a new dimension, no metadata
as_dimension(coords, label) ==
    [k |-> "Dimension", label |-> label, coords |-> coords, application |-> NoApplication]

\* a cp.CSDM object: components is dependent_variables[0].components[0]
CSDM(components, dimensions) ==
    [k |-> "CSDM", components |-> components, dimensions |-> dimensions]

\* cp.as_csdm(A): one plain dimension per axis of A
as_csdm(A) == CSDM(A, [d \in 1..ndim(A) |-> Dimension("", NoApplication)])

isCSDM(s) == s.k = "CSDM"

\* the plain array the code takes out of a signal (lines 29-33, 123-126)
signal_array(s) == IF isCSDM(s) THEN transpose(s.components) ELSE s

\* np.sqrt(np.sum(np.abs(s_) ** 2)), kept as the number under the root
norm_of(s_) == [k |-> "sqrt", of |-> SumSq(s_.data)]

\* s_ / scale
divide(s_, scale) == Array(s_.shape, [e \in 1..Len(s_.data) |-> Quot(s_.data[e], scale.of)])

\* a faulty variant of normalize: each column is divided by its own norm
normalize_bycolumn(s_) ==
    Array(s_.shape,
          [e \in 1..Len(s_.data) |->
               Quot(s_.data[e], SumSq(ColOf(s_, (e - 1) % NCols(s_))))])

\* s_ = s_ / self.scale with self.scale the norm of the whole signal matrix
normalize(s_) == divide(s_, norm_of(s_))

\* f *= scale
times_scale(f, scale) ==
    Array(f.shape, [e \in 1..Len(f.data) |-> [k |-> "times", x |-> f.data[e], sqrt |-> scale.of]])

\* the inner product of two integer sequences of one length
RECURSIVE InnerProduct(_, _)
InnerProduct(a, b) ==
    IF a = <<>> THEN 0 ELSE Head(a) * Head(b) + InnerProduct(Tail(a), Tail(b))

\* the exact real (tr + sqrt(disc)) / 2
HalfSum(tr, disc) == [k |-> "eig", tr |-> tr, disc |-> disc]

\* the largest eigenvalue of the Gram matrix [[a, b], [b, c]] of the vectors
\* u and v: (a + c + sqrt((a - c)^2 + 4 b^2)) / 2
MaxEig2(u, v) ==
    HalfSum(SumSq(u) + SumSq(v),
            (SumSq(u) - SumSq(v)) * (SumSq(u) - SumSq(v))
                + 4 * InnerProduct(u, v) * InnerProduct(u, v))

\* sin_val[0] ** 2 with sin_val = np.linalg.svd(K)[1]: the largest singular
\* value squared is the largest eigenvalue of K^T K and of K K^T.  With at
\* most two columns (or two rows) it is computed exactly from that 2 x 2
\* Gram matrix; a larger kernel keeps the term of its Gram matrix K^T K.
\* In every case tr is the trace, the sum of all squared entries, and the
\* value is zero exactly when tr is zero.
lipszit_of(K) ==
    IF NCols(K) = 1 THEN MaxEig2(ColOf(K, 0), [r \in 1..NRows(K) |-> 0])
    ELSE IF NCols(K) = 2 THEN MaxEig2(ColOf(K, 0), ColOf(K, 1))
    ELSE IF NRows(K) = 1 THEN MaxEig2(RowOf(K, 0), [c \in 1..NCols(K) |-> 0])
    ELSE IF NRows(K) = 2 THEN MaxEig2(RowOf(K, 0), RowOf(K, 1))
    ELSE [k |-> "maxeig", tr |-> SumSq(K.data),
          gram |-> [i \in 1..NCols(K) |->
                      [j \in 1..NCols(K) |->
                          InnerProduct(ColOf(K, i - 1), ColOf(K, j - 1))]]]

\* whether a value of lipszit_of is 0.0
lipszit_is_zero(lipszit) == lipszit.tr = 0

\* 1 / lipszit, kept as the divisor (a numpy float division: 1 / 0.0 is inf)
linv_of(lipszit) == [k |-> "recip", of |-> lipszit]

----------------------------------------------------------------------------
(* The compiled solver fista.fista. *)

\* the arguments of one call
fista_call(matrix, s, lambd, maxiter, f_k, nonnegative, linv, tol) ==
    [k |-> "fista", matrix |-> matrix, s |-> s, lambd |-> lambd, maxiter |-> maxiter,
     f_k |-> f_k, nonnegative |-> nonnegative, linv |-> linv, tol |-> tol, npros |-> 1]

\* the array the call leaves in f_k: entry e is the e-th entry of the
\* minimiser computed from exactly these arguments
fista_out(call) ==
    Array(call.f_k.shape,
          [e \in 1..Len(call.f_k.data) |-> [k |-> "sol", call |-> call, at |-> e]])

\* the arguments the solver's contract covers: matching row counts, a
\* finite step size and a finite signal
fista_contract(call) ==
    /\ NRows(call.matrix) = NRows(call.s)
    /\ ~lipszit_is_zero(call.linv.of)
    /\ \A e \in 1..Len(call.s.data) : call.s.data[e].rad # 0

----------------------------------------------------------------------------
(* class LassoFista *)

\* a regularisation weight 10^(-n/9) is kept as n, the negative decimal
\* exponent in ninths, so that the default grid of LassoFistaCV is integral:
\* 1.0e-3 is 27
LassoFista_lambda1 == 27

\* 1e-5, kept as the negative decimal exponent

LassoFista_tolerance == 5

LassoFista_max_iterations == 1000

\* LassoFista.__init__
LassoFista(lambda1, max_iterations, tolerance, positive, inverse_dimension) ==
    [cls |-> "LassoFista",
     hyperparameters |-> [keys |-> {"lambda"}, lambda |-> lambda1],
     max_iterations |-> max_iterations,
     tolerance |-> tolerance,
     positive |-> positive,
     inverse_dimension |-> inverse_dimension,
     s |-> Unset, scale |-> Unset, f |-> Unset]

\* a faulty variant of fit_f_k: the solver is started from the stored solution
fit_f_k_warm(obj, K_, s_) ==
    IF obj.f.k = "ndarray" /\ obj.f.shape = <<NCols(K_), NCols(s_)>>
    THEN obj.f
    ELSE zeros(<<NCols(K_), NCols(s_)>>)

\* line 43: self.f = np.zeros((K_.shape[1], s_.shape[1]))
fit_f_k(obj, K_, s_) == zeros(<<NCols(K_), NCols(s_)>>)

\* lines 63-78: the solution packed as a CSDM object.
\* Gives [obj, raised]; obj.f is already the CSDM object when line 66, 69 or
\* 73 raises.
csdm_pack(obj, s) ==
    LET f1   == as_csdm(squeeze(transpose(obj.f)))
        obj1 == [obj EXCEPT !.f = f1]
        dim  == obj.inverse_dimension
        app  == dim.application
        dim2 == IF app.present /\ app.log
                THEN as_dimension("log10", app.label)
                ELSE dim
        nd   == Len(f1.dimensions)
        d1   == IF Len(s.dimensions) > 1
                THEN [f1.dimensions EXCEPT ![2] = s.dimensions[2]]
                ELSE f1.dimensions
    IN  IF dim = None
        THEN [obj |-> obj1, raised |-> "AttributeError"]
        ELSE IF app.present /\ "log" \notin app.keys
        THEN [obj |-> obj1, raised |-> "KeyError"]
        ELSE IF app.present /\ app.log /\ "label" \notin app.keys
        THEN [obj |-> obj1, raised |-> "KeyError"]
        ELSE IF nd = 0 \/ (Len(s.dimensions) > 1 /\ nd < 2)
        THEN [obj |-> [obj1 EXCEPT !.inverse_dimension = dim2], raised |-> "IndexError"]
        ELSE [obj |-> [obj1 EXCEPT !.inverse_dimension = dim2,
                                   !.f = CSDM(f1.components, [d1 EXCEPT ![1] = dim2])],
              raised |-> "no"]

\* LassoFista.fit(K, s).  solver_raises: the compiled routine rejects the
\* call (possible only outside fista_contract).
\* Gives [obj, raised, calls]: the instance afterwards, the exception raised
\* ("no" for a normal return) and the solver calls made.
LassoFista_fit(obj, K, s, solver_raises) ==
    LET obj1  == IF isCSDM(s) THEN [obj EXCEPT !.s = s] ELSE obj
        s0    == signal_array(s)
        s1    == IF ndim(s0) = 1 THEN newaxis(s0) ELSE s0
        scale == norm_of(s1)
        s_    == normalize(s1)
        obj2  == [obj1 EXCEPT !.scale = scale]
        f_k   == fit_f_k(obj2, K, s_)
        obj3  == [obj2 EXCEPT !.f = f_k]
        call  == fista_call(K, s_, obj.hyperparameters.lambda, obj.max_iterations, f_k,
                            IF obj.positive THEN 1 ELSE 0,
                            linv_of(lipszit_of(K)), obj.tolerance)
        obj4  == [obj3 EXCEPT !.f = times_scale(fista_out(call), obj3.scale)]
    IN  IF solver_raises /\ ~fista_contract(call)
        THEN [obj |-> obj3, raised |-> "fista.error", calls |-> <<call>>]
        ELSE IF ~isCSDM(s)
        THEN [obj |-> obj4, raised |-> "no", calls |-> <<call>>]
        ELSE [obj |-> csdm_pack(obj4, s).obj, raised |-> csdm_pack(obj4, s).raised,
              calls |-> <<call>>]

\* LassoFista.predict(K).  Gives [raised, value].
LassoFista_predict(obj, K) ==
    LET f == IF isCSDM(obj.f) THEN transpose(obj.f.components) ELSE obj.f
    IN  IF obj.f = Unset
        THEN [raised |-> "AttributeError", value |-> None]
        ELSE IF ~Dottable(K, f)
        THEN [raised |-> "ValueError", value |-> None]
        ELSE [raised |-> "no", value |-> dot(K, f)]

\* line 127: predict = np.squeeze(self.predict(K))
residuals_predict(p) == squeeze(p)

\* LassoFista.residuals(K, s).  Gives [raised, value].
LassoFista_residuals(obj, K, s) ==
    LET s_      == signal_array(s)
        p       == LassoFista_predict(obj, K)
        predict == residuals_predict(p.value)
        residue == subtract(s_, predict)
    IN  IF p.raised # "no"
        THEN p
        ELSE IF ~Broadcastable(s_, predict)
        THEN [raised |-> "ValueError", value |-> None]
        ELSE IF ~isCSDM(s)
        THEN [raised |-> "no", value |-> residue]
        ELSE [raised |-> "no", value |-> CSDM(transpose(residue), s.dimensions)]

----------------------------------------------------------------------------
(* The compiled cross-validation solver fista_cv.fista. *)

\* the arguments of one call
fista_cv_call(matrix, s, matrixtest, stest, lambdaval, maxiter, nonnegative, linv, tol, npros, m) ==
    [k |-> "fista_cv", matrix |-> matrix, s |-> s, matrixtest |-> matrixtest,
     stest |-> stest, lambdaval |-> lambdaval, maxiter |-> maxiter,
     nonnegative |-> nonnegative, linv |-> linv, tol |-> tol, npros |-> npros, m |-> m]

\* the arguments the solver's contract covers: a non-empty grid, training
\* rows, a finite step size and a finite signal
fista_cv_contract(call) ==
    /\ Len(call.lambdaval.data) > 0
    /\ call.matrix.shape[1] > 0
    /\ ~lipszit_is_zero(call.linv.of)
    /\ \A q \in DOMAIN call.s.sl : \A r \in DOMAIN call.s.sl[q] :
           \A c \in DOMAIN call.s.sl[q][r] : call.s.sl[q][r][c].rad # 0

\* the error surfaces a call can report, one value per candidate: every
\* surface for a grid of at most MaxFullGrid candidates; for a longer grid
\* the flat surface and the surfaces with a single candidate at 0
fista_cv_out(lambdaval) ==
    IF Len(lambdaval.data) <= MaxFullGrid
    THEN [1..Len(lambdaval.data) -> 0..MaxErr]
    ELSE { [e \in 1..Len(lambdaval.data) |-> IF e = d THEN 0 ELSE MaxErr] :
               d \in 0..Len(lambdaval.data) }

----------------------------------------------------------------------------
(* class LassoFistaCV *)

LassoFistaCV_folds == 10

LassoFistaCV_tolerance == 5

LassoFistaCV_times == 2

LassoFistaCV_max_iterations == 10000

LassoFistaCV_n_jobs == 1

\* a dict without the key "lambda"
EmptyDict == [keys |-> {}, lambda |-> 0]

\* line 155: 10 ** ((np.arange(10) / 9) * 5 - 9)[::-1], the ten weights
\* 1e-4, 10^(-41/9), ..., 1e-9 in the units of LassoFista_lambda1
default_lambdas ==
    LET exponent9 == [i \in 1..10 |-> 81 - 5 * arange(10)[i]]
    IN  Array(<<10>>, [i \in 1..10 |-> exponent9[11 - i]])

\* np.asarray(lambdas).ravel(): the entries in row-major order, one axis
ravel(A) == Array(<<Size(A.shape)>>, A.data)

\* LassoFistaCV.__init__: lambdas is None or an array of weights
LassoFistaCV(lambdas, folds, max_iterations, tolerance, positive, sigma, randomize, times, inverse_dimension, n_jobs) ==
    [cls |-> "LassoFistaCV",
     cv_lambdas |-> IF lambdas = None THEN default_lambdas ELSE ravel(lambdas),
     folds |-> folds,
     max_iterations |-> max_iterations,
     tolerance |-> tolerance,
     positive |-> positive,
     sigma |-> sigma,
     randomize |-> randomize,
     times |-> times,
     inverse_dimension |-> inverse_dimension,
     n_jobs |-> n_jobs,
     hyperparameters |-> EmptyDict,
     f |-> None,
     s |-> Unset, scale |-> Unset, cv_map |-> Unset, opt |-> Unset,
     cross_validation_curve |-> Unset]

Abs(x) == IF x < 0 THEN 0 - x ELSE x

\* lines 225-226: cv_map -= sigma ** 2; cv_map = np.abs(cv_map)
corrected_cv_map(cv_map, sigma) ==
    [e \in 1..Len(cv_map) |-> Abs(cv_map[e] - sigma * sigma)]

\* a.argmin(): the position (1-based here) of the first smallest entry
argmin(a) ==
    CHOOSE e \in 1..Len(a) :
        /\ \A d \in 1..Len(a) : a[e] <= a[d]
        /\ \A d \in 1..(e - 1) : a[d] > a[e]

\* a faulty variant of selected_index: the smallest uncorrected error is taken
selected_index_raw(cv_map, sigma) == argmin(cv_map)

\* line 227: the grid position selected from the reported errors
selected_index(cv_map, sigma) == argmin(corrected_cv_map(cv_map, sigma))

\* a faulty variant of refit_estimator: the refit runs with LassoFista's defaults
refit_estimator_defaults(obj, lambda) ==
    LassoFista(lambda, LassoFista_max_iterations, LassoFista_tolerance, TRUE,
               obj.inverse_dimension)

\* lines 235-241: the estimator of the final refit
refit_estimator(obj, lambda) ==
    LassoFista(lambda, obj.max_iterations, obj.tolerance, obj.positive,
               obj.inverse_dimension)

\* lines 246-250: the error curve as a CSDM object over log10 of the grid
cv_map_csdm(cv_map) ==
    as_csdm(squeeze(Array(<<Len(cv_map)>>, [e \in 1..Len(cv_map) |-> [k |-> "log10", of |-> cv_map[e]]])))

\* the fold index arrays kept with the outcome of a fit
fold_indices(tts) ==
    IF tts.raised = "no"
    THEN [raised |-> "no", train_index |-> tts.train_index, test_index |-> tts.test_index]
    ELSE [raised |-> tts.raised, train_index |-> <<>>, test_index |-> <<>>]

\* lines 243-250: the solution is exposed and the error curve stored;
\* obj already holds opt, r is the outcome of opt.fit, curve the CSDM curve
fit_expose(obj, r, curve, d0, calls, idx, cv_out) ==
    IF r.raised # "no"
    THEN [obj |-> obj, raised |-> r.raised, calls |-> calls, tts |-> idx, cv |-> [k |-> "cv_map", data |-> cv_out]]
    ELSE IF Len(curve.dimensions) = 0
    THEN [obj |-> [obj EXCEPT !.f = r.obj.f, !.cv_map = curve],
          raised |-> "IndexError", calls |-> calls, tts |-> idx, cv |-> [k |-> "cv_map", data |-> cv_out]]
    ELSE [obj |-> [obj EXCEPT !.f = r.obj.f,
                              !.cv_map = CSDM(curve.components,
                                              [curve.dimensions EXCEPT ![1] = d0]),
                              !.cross_validation_curve =
                                  CSDM(curve.components,
                                       [curve.dimensions EXCEPT ![1] = d0])],
          raised |-> "no", calls |-> calls, tts |-> idx, cv |-> [k |-> "cv_map", data |-> cv_out]]

\* lines 231-242: the selected candidate is stored and the refit is run;
\* obj already holds the corrected cv_map
fit_refit(obj, K, s, lam, r, call, idx, cv_out) ==
    fit_expose([obj EXCEPT !.hyperparameters = [keys |-> {"lambda"}, lambda |-> lam],
                           !.opt = r.obj],
               r, cv_map_csdm(obj.cv_map.data),
               as_dimension("log10", "log(lambda)"),
               <<call>> \o r.calls, idx, cv_out)

\* lines 225-242: the error surface is corrected, the candidate selected
fit_select(obj, K, s, cv_out, call, idx, solver_raises) ==
    IF Len(cv_out) = 0
    THEN [obj |-> [obj EXCEPT !.cv_map = Array(<<0>>, <<>>)],
          raised |-> "ValueError", calls |-> <<call>>, tts |-> idx, cv |-> [k |-> "cv_map", data |-> cv_out]]
    ELSE fit_refit([obj EXCEPT !.cv_map = Array(<<Len(cv_out)>>,
                                                corrected_cv_map(cv_out, obj.sigma))],
                   K, s,
                   obj.cv_lambdas.data[selected_index(cv_out, obj.sigma)],
                   LassoFista_fit(
                       refit_estimator(obj, obj.cv_lambdas.data[selected_index(cv_out, obj.sigma)]),
                       K, s, solver_raises),
                   call, idx, cv_out)

\* lines 204-223: the cross-validation solve on the fold tensors
fit_cross_validate(obj, K, s, tts, call, cv_out, solver_raises) ==
    IF solver_raises /\ ~fista_cv_contract(call)
    THEN [obj |-> obj, raised |-> "fista_cv.error", calls |-> <<call>>,
          tts |-> fold_indices(tts), cv |-> None]
    ELSE fit_select(obj, K, s, cv_out, call, fold_indices(tts), solver_raises)

\* lines 195-223: the fold tensors are built from K and the normalised signal
fit_folds(obj, K, s, tts, cv_out, solver_raises) ==
    IF tts.raised # "no"
    THEN [obj |-> obj, raised |-> tts.raised, calls |-> <<>>, tts |-> fold_indices(tts),
          cv |-> None]
    ELSE fit_cross_validate(obj, K, s, tts,
             fista_cv_call(tts.k_train, tts.s_train, tts.k_test, tts.s_test,
                           obj.cv_lambdas, obj.max_iterations,
                           IF obj.positive THEN 1 ELSE 0,
                           linv_of(lipszit_of(K)), obj.tolerance, obj.n_jobs, tts.m),
             cv_out, solver_raises)

\* lines 190-202: s1 is the signal as a matrix; gives the instance with its
\* scale stored and the fold tensors of K and the normalised signal
fit_normalized(obj, K, s1, shuffles) ==
    [obj |-> [obj EXCEPT !.scale = norm_of(s1)],
     tts |-> test_train_set(K, normalize(s1), obj.folds, obj.randomize, obj.times,
                            shuffles)]

\* lines 178-202: the part of fit before the first solver call
fit_prepare(obj, K, s, shuffles) ==
    fit_normalized(IF isCSDM(s) THEN [obj EXCEPT !.s = s] ELSE obj, K,
                   IF ndim(signal_array(s)) = 1
                   THEN newaxis(signal_array(s))
                   ELSE signal_array(s),
                   shuffles)

\* lines 195-250: the part of fit from the first solver call on
fit_solve(prep, K, s, cv_out, solver_raises) ==
    fit_folds(prep.obj, K, s, prep.tts, cv_out, solver_raises)

\* LassoFistaCV.fit(K, s).  shuffles: the index arrays the shuffles leave;
\* cv_out: the error surface fista_cv.fista reports; solver_raises: the
\* compiled routines reject a call outside their contract.
\* Gives [obj, raised, calls, tts, cv]: the instance afterwards, the exception
\* raised ("no" for a normal return), the solver calls made in order, the
\* fold index arrays and the error surface fista_cv.fista returned (None when
\* it did not return).
LassoFistaCV_fit(obj, K, s, shuffles, cv_out, solver_raises) ==
    fit_solve(fit_prepare(obj, K, s, shuffles), K, s, cv_out, solver_raises)

\* LassoFistaCV.predict(K).  Gives [raised, value].
LassoFistaCV_predict(obj, K) ==
    IF obj.opt = Unset
    THEN [raised |-> "AttributeError", value |-> None]
    ELSE LassoFista_predict(obj.opt, K)

\* LassoFistaCV.residuals(K, s).  Gives [raised, value].
LassoFistaCV_residuals(obj, K, s) ==
    IF obj.opt = Unset
    THEN [raised |-> "AttributeError", value |-> None]
    ELSE LassoFista_residuals(obj.opt, K, s)

----------------------------------------------------------------------------
(* One estimator instance and the calls made on it. *)

\* the kernels: 1 x 1, 2 x 1, an all-zero 2 x 1, and the 3 x 2 kernel with
\* rows (1,1), (0,1), (0,0), whose columns are not orthogonal
K_1x1 == Array(<<1, 1>>, <<1>>)

K_2x1 == Array(<<2, 1>>, <<1, 2>>)

K_2x1_zero == Array(<<2, 1>>, <<0, 0>>)

K_3x2 == Array(<<3, 2>>, <<1, 1, 0, 1, 0, 0>>)

Kernels == {K_1x1, K_2x1, K_2x1_zero, K_3x2}

\* a one-dimensional CSDM signal of three points
S_csdm3 == CSDM(Array(<<3>>, <<2, 0, 1>>), <<Dimension("t", NoApplication)>>)

\* the (kernel, signal) pairs given to fit and to residuals: every signal
\* shape (m,), (m,1), (m,c) with m = 1 and m > 1 on a kernel of as many rows,
\* a CSDM signal, the all-zero kernel, a signal longer than the kernel and a
\* signal shorter than the kernel
Problems ==
    { <<K_1x1, Array(<<1>>, <<2>>)>>,
      <<K_1x1, Array(<<1, 1>>, <<2>>)>>,
      <<K_1x1, Array(<<1, 2>>, <<1, 2>>)>>,
      <<K_2x1, Array(<<2>>, <<1, 2>>)>>,
      <<K_2x1, Array(<<2, 1>>, <<2, 1>>)>>,
      <<K_2x1, Array(<<2, 2>>, <<1, 0, 0, 2>>)>>,
      <<K_3x2, Array(<<3>>, <<1, 0, 2>>)>>,
      <<K_3x2, S_csdm3>>,
      <<K_2x1_zero, Array(<<2>>, <<1, 2>>)>>,
      <<K_2x1, Array(<<3>>, <<1, 0, 2>>)>>,
      <<K_3x2, Array(<<2>>, <<1, 2>>)>> }

\* the LassoFista instances of the model
LassoFistaInstances ==
    { LassoFista(LassoFista_lambda1, LassoFista_max_iterations, LassoFista_tolerance,
                 TRUE, None),
      LassoFista(LassoFista_lambda1, LassoFista_max_iterations, LassoFista_tolerance,
                 FALSE, Dimension("x", NoApplication)),
      LassoFista(LassoFista_lambda1, LassoFista_max_iterations, LassoFista_tolerance,
                 TRUE, Dimension("x", Application({"log", "label"}, TRUE, "log(x)"))),
      LassoFista(LassoFista_lambda1, LassoFista_max_iterations, LassoFista_tolerance,
                 TRUE, Dimension("x", Application({"log", "label"}, FALSE, "log(x)"))),
      LassoFista(LassoFista_lambda1, LassoFista_max_iterations, LassoFista_tolerance,
                 TRUE, Dimension("x", Application({"label"}, FALSE, "log(x)"))),
      LassoFista(LassoFista_lambda1, LassoFista_max_iterations, LassoFista_tolerance,
                 TRUE, Dimension("x", Application({"log"}, TRUE, ""))) }

\* the LassoFistaCV instances of the model: (grid, folds, sigma, randomize, times);
\* the first is LassoFistaCV(), the third is given its grid as a 1 x 2 array
LassoFistaCVInstances ==
    { LassoFistaCV(None, LassoFistaCV_folds, LassoFistaCV_max_iterations,
                   LassoFistaCV_tolerance, TRUE, 0, FALSE, LassoFistaCV_times, None,
                   LassoFistaCV_n_jobs),
      LassoFistaCV(Array(<<2>>, <<36, 54>>), 2, LassoFistaCV_max_iterations,
                   LassoFistaCV_tolerance, TRUE, 0, FALSE, 2, None, LassoFistaCV_n_jobs),
      LassoFistaCV(Array(<<1, 2>>, <<36, 54>>), 2, LassoFistaCV_max_iterations,
                   LassoFistaCV_tolerance, FALSE, 1, TRUE, 1, Dimension("x", NoApplication),
                   LassoFistaCV_n_jobs),
      LassoFistaCV(Array(<<1>>, <<45>>), 3, LassoFistaCV_max_iterations,
                   LassoFistaCV_tolerance, TRUE, 0, FALSE, 1, None, LassoFistaCV_n_jobs),
      LassoFistaCV(Array(<<0>>, <<>>), 1, LassoFistaCV_max_iterations,
                   LassoFistaCV_tolerance, TRUE, 0, FALSE, 1, None, LassoFistaCV_n_jobs) }

NoSplit == [raised |-> "notrun", train_index |-> <<>>, test_index |-> <<>>]

\* the fit calls made on the instance so far: how many, how many of them
\* returned normally, and the K, s and outcome of the last one
NoFits == [n |-> 0, ok |-> 0, K |-> None, s |-> None, raised |-> "nofit"]

Fitted(h, K, s, raised) ==
    [n |-> h.n + 1, ok |-> IF raised = "no" THEN h.ok + 1 ELSE h.ok,
     K |-> K, s |-> s, raised |-> raised]

\* what the last call was, what it was given and how it ended
Called(op, K, s, raised, value, calls, tts, cv) ==
    [op |-> op, K |-> K, s |-> s, raised |-> raised, value |-> value, calls |-> calls,
     tts |-> tts, cv |-> cv]

\* the pairs given to LassoFistaCV: the two-row problem with one and with two
\* signal columns, the three-row problem, the CSDM signal, the all-zero kernel, the signal longer than the kernel
\* and the signal shorter than the kernel
CVProblems ==
    { <<K_2x1, Array(<<2>>, <<1, 2>>)>>,
      <<K_2x1, Array(<<2, 2>>, <<1, 0, 0, 2>>)>>,
      <<K_3x2, Array(<<3>>, <<1, 0, 2>>)>>,
      <<K_3x2, S_csdm3>>,
      <<K_2x1_zero, Array(<<2>>, <<1, 2>>)>>,
      <<K_2x1, Array(<<3>>, <<1, 0, 2>>)>>,
      <<K_3x2, Array(<<2>>, <<1, 2>>)>> }

Init ==
    /\ self \in LassoFistaInstances \cup LassoFistaCVInstances
    /\ ctor = self
    /\ last = Called("init", None, None, "no", None, <<>>, NoSplit, None)
    /\ fits = NoFits
    /\ split = Idle

\* predict and residuals leave the instance as it is, and no call reads
\* `last`: a call made after a read reaches the state the same call reaches
\* before that read.  Every call is therefore explored from the states that
\* construction and fit leave, which reaches the same set of states.
CanCall == last.op \in {"init", "fit"}

CanFit == fits.n < MaxFits /\ CanCall

\* a LassoFistaCV instance is fitted one time fewer than a LassoFista
\* instance: each of its fits draws the shuffles and the error surface too
MaxCVFits == MaxFits - 1

LF_fit ==
    /\ self.cls = "LassoFista"
    /\ CanFit
    /\ \E p \in Problems, solver_raises \in BOOLEAN :
         LET r == LassoFista_fit(self, p[1], p[2], solver_raises)
         IN  /\ solver_raises => r.raised = "fista.error"
             /\ self' = r.obj
             /\ last' = Called("fit", p[1], p[2], r.raised, None, r.calls, NoSplit, None)
             /\ fits' = Fitted(fits, p[1], p[2], r.raised)
    /\ UNCHANGED <<ctor, split>>

LF_predict ==
    /\ self.cls = "LassoFista"
    /\ CanCall
    /\ \E K \in Kernels :
         LET r == LassoFista_predict(self, K)
         IN  last' = Called("predict", K, None, r.raised, r.value, <<>>, NoSplit, None)
    /\ UNCHANGED <<self, ctor, fits, split>>

LF_residuals ==
    /\ self.cls = "LassoFista"
    /\ CanCall
    /\ \E p \in Problems :
         LET r == LassoFista_residuals(self, p[1], p[2])
         IN  last' = Called("residuals", p[1], p[2], r.raised, r.value, <<>>, NoSplit, None)
    /\ UNCHANGED <<self, ctor, fits, split>>

\* the outcomes of LassoFistaCV.fit(p[1], p[2]) on self, which is
\* LassoFistaCV_fit with prep the part of the call before the solver: one
\* outcome for every error surface the solver can report
CV_fit_outcome(p, prep) ==
    \E solver_raises \in BOOLEAN, cv_out \in fista_cv_out(self.cv_lambdas) :
        LET r == fit_solve(prep, p[1], p[2], cv_out, solver_raises)
        IN  /\ solver_raises => r.raised \in {"fista_cv.error", "fista.error"}
            /\ self' = r.obj
            /\ last' = Called("fit", p[1], p[2], r.raised, None, r.calls, r.tts, r.cv)
            /\ fits' = Fitted(fits, p[1], p[2], r.raised)

CV_fit ==
    /\ self.cls = "LassoFistaCV"
    /\ CanFit /\ fits.n < MaxCVFits
    /\ \E p \in CVProblems :
       \E shuffles \in IF self.randomize
                       THEN [1..self.times -> Permutations0(NRows(p[1]))]
                       ELSE {<<>>} :
           CV_fit_outcome(p, fit_prepare(self, p[1], p[2], shuffles))
    /\ UNCHANGED <<ctor, split>>

CV_predict ==
    /\ self.cls = "LassoFistaCV"
    /\ CanCall
    /\ \E K \in Kernels :
         LET r == LassoFistaCV_predict(self, K)
         IN  last' = Called("predict", K, None, r.raised, r.value, <<>>, NoSplit, None)
    /\ UNCHANGED <<self, ctor, fits, split>>

CV_residuals ==
    /\ self.cls = "LassoFistaCV"
    /\ CanCall
    /\ \E p \in CVProblems :
         LET r == LassoFistaCV_residuals(self, p[1], p[2])
         IN  last' = Called("residuals", p[1], p[2], r.raised, r.value, <<>>, NoSplit, None)
    /\ UNCHANGED <<self, ctor, fits, split>>

Next ==
    \/ LF_fit
    \/ LF_predict
    \/ LF_residuals
    \/ CV_fit
    \/ CV_predict
    \/ CV_residuals

Spec == Init /\ [][Next]_vars

----------------------------------------------------------------------------
(* The splitter on its own: inputs drawn at Init, one call. *)

\* a kernel of n rows whose row r holds r+1, and the matching signal
SplitX(n) == Array(<<n, 1>>, [e \in 1..n |-> e])

SplitY(n) == Array(<<n, 1>>, [e \in 1..n |-> Quot(e, 1)])

SplitInit ==
    /\ self = Idle
    /\ ctor = Idle
    /\ last = Idle
    /\ fits = NoFits
    /\ \E n \in 1..MaxN, folds \in 1..MaxFolds, r \in 1..MaxRepeat, random \in BOOLEAN :
         /\ random => n <= MaxShuffleN
         /\ split = [k |-> "args", X |-> SplitX(n), y |-> SplitY(n), folds |-> folds,
                  random |-> random, repeat_folds |-> r,
                  out |-> [raised |-> "pending"]]

SplitCall ==
    /\ split.k = "args"
    /\ \E shuffles \in IF split.random
                       THEN [1..split.repeat_folds -> Permutations0(NRows(split.X))]
                       ELSE {<<>>} :
         split' = [split EXCEPT !.k = "done",
                     !.out = test_train_set(split.X, split.y, split.folds, split.random,
                                            split.repeat_folds, shuffles)]
    /\ UNCHANGED <<self, ctor, last, fits>>

SplitNext == SplitCall

SpecSplit == SplitInit /\ [][SplitNext]_vars

----------------------------------------------------------------------------
(* Claims about the splitter. *)

SplitDone == split.k = "done" /\ split.out.raised = "no"

SplitSlots == 1..(split.folds * split.repeat_folds)

\* C1: in every fold slot test_train_set writes, the train indices and the
\* test indices hold no index twice, share no index, and together are
\* exactly the indices 0..n-1.
C1_TrainTestPartition ==
    SplitDone =>
        \A q \in SplitSlots :
            LET tr == split.out.train_index[q]
                te == split.out.test_index[q]
            IN  /\ NoDup(tr)
                /\ NoDup(te)
                /\ Range(tr) \cap Range(te) = {}
                /\ Range(tr) \cup Range(te) = 0..(NRows(split.X) - 1)
                /\ Len(tr) + Len(te) = NRows(split.X)

\* a shuffled split with a remainder: 3 samples, 2 folds, 2 repeats, the
\* first fold of the second repeat holding out samples 2 and 0
C1_Witness ==
    /\ SplitDone
    /\ split.random
    /\ NRows(split.X) = 3 /\ split.folds = 2 /\ split.repeat_folds = 2
    /\ split.out.test_index[3] = <<2, 0>>
    /\ split.out.train_index[3] = <<1>>

----------------------------------------------------------------------------
(* Claims about the estimators. *)

IsLF == self.cls = "LassoFista"

IsCV == self.cls = "LassoFistaCV"

\* the last fit call made on the instance
LastFit == fits

\* the last fit call made on the instance returned normally
LastFitOK == fits.n > 0 /\ fits.raised = "no"

\* no fit call made on the instance so far returned normally
NoFitOK == fits.ok = 0

\* the caller's signal as a matrix of one column per measurement
SignalMatrix(s) ==
    IF ndim(signal_array(s)) = 1 THEN newaxis(signal_array(s)) ELSE signal_array(s)

PlainSignal(s) == s.k = "ndarray"

\* C2: whenever fista_cv.fista has reported an error surface over a non-empty
\* grid, hyperparameters['lambda'] is a grid member whose error, after
\* subtracting sigma^2 and taking the absolute value, is at most that of every
\* other candidate, and the first such member in grid order.
C2_SelectedLambda ==
    (IsCV /\ last.op = "fit" /\ last.cv # None /\ Len(ctor.cv_lambdas.data) > 0) =>
        /\ Len(last.cv.data) = Len(ctor.cv_lambdas.data)
        /\ self.hyperparameters.keys = {"lambda"}
        /\ \E i \in 1..Len(ctor.cv_lambdas.data) :
             /\ self.hyperparameters.lambda = ctor.cv_lambdas.data[i]
             /\ \A j \in 1..Len(ctor.cv_lambdas.data) :
                  Abs(last.cv.data[i] - ctor.sigma * ctor.sigma)
                      <= Abs(last.cv.data[j] - ctor.sigma * ctor.sigma)
             /\ \A j \in 1..(i - 1) :
                  Abs(last.cv.data[j] - ctor.sigma * ctor.sigma)
                      > Abs(last.cv.data[i] - ctor.sigma * ctor.sigma)

\* sigma = 1 and reported errors (0, 1): the corrected errors are (1, 0) and
\* the second candidate is selected although the first has the smaller raw error
C2_Witness ==
    /\ IsCV /\ last.op = "fit" /\ last.raised = "no"
    /\ ctor.sigma = 1
    /\ ctor.cv_lambdas = Array(<<2>>, <<36, 54>>)
    /\ last.cv # None
    /\ last.cv.data = <<0, 1>>
    /\ self.hyperparameters.lambda = 54

\* the single-lambda estimator the claim names, fitted on the K and s of the
\* last fit call
C3_Reference ==
    LassoFista_fit(LassoFista(self.hyperparameters.lambda, ctor.max_iterations,
                              ctor.tolerance, ctor.positive, ctor.inverse_dimension),
                   LastFit.K, LastFit.s, FALSE)

\* C3: after a LassoFistaCV.fit(K, s) that returned normally, f is the
\* solution of one LassoFista fit of K and s at hyperparameters['lambda'] with
\* the CV object's max_iterations, tolerance and positive, and predict and
\* residuals give what that estimator's predict and residuals give.
C3_RefitOnFullData ==
    (IsCV /\ LastFitOK) =>
        /\ C3_Reference.raised = "no"
        /\ self.f = C3_Reference.obj.f
        /\ self.opt.f = self.f
        /\ last.op = "predict" =>
             [raised |-> last.raised, value |-> last.value]
                 = LassoFista_predict(C3_Reference.obj, last.K)
        /\ last.op = "residuals" =>
             [raised |-> last.raised, value |-> last.value]
                 = LassoFista_residuals(C3_Reference.obj, last.K, last.s)

\* a cross-validated fit that selected the second candidate, followed by
\* residuals on the same K and s
C3_Witness ==
    /\ IsCV /\ LastFitOK
    /\ self.hyperparameters.lambda = 54
    /\ ~ctor.positive
    /\ last.op = "residuals" /\ last.raised = "no"
    /\ last.K = LastFit.K /\ last.s = LastFit.s

\* the prediction of the fitted instance for the K of the last call
C4_Predict ==
    IF IsLF THEN LassoFista_predict(self, last.K) ELSE LassoFistaCV_predict(self, last.K)

\* C4: after a fit that returned normally, residuals(K, s) for the plain
\* signal s of that fit (K and s of as many rows) has the shape of s and
\* holds s - predict(K) entry by entry.
C4_ResidualsShape ==
    (/\ last.op = "residuals"
     /\ LastFitOK
     /\ last.K = LastFit.K /\ last.s = LastFit.s
     /\ PlainSignal(last.s)
     /\ NRows(last.K) = NRows(SignalMatrix(last.s))) =>
        /\ last.raised = "no"
        /\ C4_Predict.raised = "no"
        /\ last.value.shape = last.s.shape
        /\ Len(last.value.data) = Len(last.s.data)
        /\ \A e \in 1..Len(last.s.data) :
             last.value.data[e] = Sub(last.s.data[e], C4_Predict.value.data[e])

\* the number under the root of the L2 norm of the whole signal matrix
C5_NormSq(s) == SumSq(SignalMatrix(s).data)

\* the caller's signal divided by the L2 norm of the whole signal matrix
C5_Normalised(s) ==
    Array(SignalMatrix(s).shape,
          [e \in 1..Len(SignalMatrix(s).data) |->
               Quot(SignalMatrix(s).data[e], C5_NormSq(s))])

\* the output of the solver call multiplied by the norm of the caller's signal
C5_Rescaled(call, s) ==
    Array(call.f_k.shape,
          [e \in 1..Len(call.f_k.data) |->
               [k |-> "times", x |-> [k |-> "sol", call |-> call, at |-> e],
                sqrt |-> C5_NormSq(s)]])

\* the entries of a stored solution
C5_Stored(f) == IF isCSDM(f) THEN f.components.data ELSE f.data

\* the rows a fold tensor slice holds for the index array idx, then padding
C5_FoldRows(slice, idx, s) ==
    /\ Len(idx) <= Len(slice)
    /\ \A r \in 1..Len(slice) :
         slice[r] = IF r <= Len(idx)
                    THEN RowOf(C5_Normalised(s), idx[r])
                    ELSE [c \in 1..NCols(SignalMatrix(s)) |-> ZeroReal]

\* C5: in every fit call the signal handed to the solver (by LassoFista.fit,
\* in the train and test tensors of the fold solves, and by the final refit)
\* is the caller's signal divided by the L2 norm of the whole signal matrix,
\* and the stored solution is the solver's output times that same norm.
C5_NormaliseAndRescale ==
    /\ (IsLF /\ last.op = "fit") =>
         /\ Len(last.calls) = 1
         /\ last.calls[1].s = C5_Normalised(last.s)
         /\ self.scale = [k |-> "sqrt", of |-> C5_NormSq(last.s)]
         /\ last.raised = "no" =>
              C5_Stored(self.f) = C5_Rescaled(last.calls[1], last.s).data
    /\ (IsCV /\ last.op = "fit" /\ Len(last.calls) >= 1) =>
         /\ self.scale = [k |-> "sqrt", of |-> C5_NormSq(last.s)]
         /\ \A q \in 1..Len(last.tts.train_index) :
              /\ C5_FoldRows(last.calls[1].s.sl[q], last.tts.train_index[q], last.s)
              /\ C5_FoldRows(last.calls[1].stest.sl[q], last.tts.test_index[q], last.s)
         /\ Len(last.calls) >= 2 =>
              /\ last.calls[2].s = C5_Normalised(last.s)
              /\ last.raised = "no" =>
                   C5_Stored(self.f) = C5_Rescaled(last.calls[2], last.s).data

\* a cross-validated fit of the two-column signal: the norm is that of all
\* four entries, not of one column
C5_Witness ==
    /\ IsCV /\ last.op = "fit" /\ last.raised = "no"
    /\ PlainSignal(last.s)
    /\ last.s.shape = <<2, 2>>
    /\ Len(last.calls) = 2
    /\ last.calls[2].s.data[1] = Quot(1, 5)
    /\ last.calls[1].s.sl[1][1][1] = Quot(0, 5)

\* C6: in every state reached without a fit call that returned normally,
\* predict and residuals raise instead of returning a value.
C6_NotFitted ==
    (NoFitOK /\ last.op \in {"predict", "residuals"}) => last.raised # "no"

\* C7: the solution a LassoFista.fit(K, s) that returned normally stores is
\* the one the same call stores on a freshly constructed instance, whatever
\* fit calls were made before.
C7_FitIndependentOfHistory ==
    (IsLF /\ LastFitOK) =>
        /\ LassoFista_fit(ctor, LastFit.K, LastFit.s, FALSE).raised = "no"
        /\ self.f = LassoFista_fit(ctor, LastFit.K, LastFit.s, FALSE).obj.f

\* a second fit that returned normally on an instance whose first fit had
\* returned normally and left a solution stored
C7_Witness ==
    /\ IsLF /\ last.op = "fit"
    /\ fits.n = 2 /\ fits.ok = 2
    /\ PlainSignal(fits.s)
    /\ self.f.shape = <<1, 2>>

\* C8: a fit whose K and s differ in their row counts raises, with no fold
\* tensors built and no solver call made.
C8_RowMismatch ==
    (last.op = "fit" /\ NRows(last.K) # NRows(SignalMatrix(last.s))) =>
        /\ last.raised # "no"
        /\ last.calls = <<>>
        /\ last.tts.raised # "no"

\* C9: a LassoFistaCV fit with an empty grid, fewer than two folds or more
\* folds than samples raises, with no fold tensors built and no solver call
\* made.
C9_InvalidConfiguration ==
    (/\ IsCV /\ last.op = "fit"
     /\ \/ Len(ctor.cv_lambdas.data) = 0
        \/ ctor.folds < 2
        \/ ctor.folds > NRows(last.K)) =>
        /\ last.raised # "no"
        /\ last.calls = <<>>
        /\ last.tts.raised # "no"

\* C10: a fit on a kernel whose largest singular value is zero raises, and no
\* solver call is given the reciprocal of that zero.
C10_DegenerateKernel ==
    (last.op = "fit" /\ lipszit_is_zero(lipszit_of(last.K))) =>
        /\ last.raised # "no"
        /\ \A i \in 1..Len(last.calls) : ~lipszit_is_zero(last.calls[i].linv.of)

----------------------------------------------------------------------------
(* Further claims about the splitter. *)

\* the slot (1-based) of fold i of repeat j, both 0-based
SlotOf(j, i) == j * split.folds + i + 1

SplitRepeats == 0..(split.repeat_folds - 1)

SplitFolds == 0..(split.folds - 1)

SplitSamples == 0..(NRows(split.X) - 1)

\* C11: within each repeat the test sets of the folds are pairwise disjoint
\* and together hold every sample exactly once; the first (n mod k) folds
\* hold floor(n/k)+1 test samples and the others floor(n/k).
C11_TestSetsPartition ==
    SplitDone =>
        \A j \in SplitRepeats :
            /\ \A i \in SplitFolds :
                 /\ NoDup(split.out.test_index[SlotOf(j, i)])
                 /\ Len(split.out.test_index[SlotOf(j, i)])
                      = IF i < NRows(split.X) % split.folds
                        THEN (NRows(split.X) \div split.folds) + 1
                        ELSE NRows(split.X) \div split.folds
            /\ \A i1, i2 \in SplitFolds :
                 i1 # i2 =>
                     Range(split.out.test_index[SlotOf(j, i1)])
                         \cap Range(split.out.test_index[SlotOf(j, i2)]) = {}
            /\ UNION {Range(split.out.test_index[SlotOf(j, i)]) : i \in SplitFolds}
                 = SplitSamples

\* 3 samples shuffled into 2 folds: the first fold of the second repeat
\* holds two samples, the second fold one
C11_Witness ==
    /\ SplitDone
    /\ split.random
    /\ NRows(split.X) = 3 /\ split.folds = 2 /\ split.repeat_folds = 2
    /\ split.out.test_index[3] = <<1, 2>>
    /\ split.out.test_index[4] = <<0>>

\* whether a sequence of numbers is strictly ascending
Ascending(q) == \A a, b \in 1..Len(q) : a < b => q[a] < q[b]

\* C12: without shuffling, sample j is in the test set of fold (j mod k) and
\* of no other fold, the train and test rows of every slice are in ascending
\* sample order, and the slices hold exactly those rows of X and y.
C12_StridedFolds ==
    (SplitDone /\ ~split.random) =>
        \A j \in SplitRepeats : \A i \in SplitFolds :
            LET te == split.out.test_index[SlotOf(j, i)]
                tr == split.out.train_index[SlotOf(j, i)]
            IN  /\ Range(te) = {s \in SplitSamples : s % split.folds = i}
                /\ Range(tr) = {s \in SplitSamples : s % split.folds # i}
                /\ Ascending(te)
                /\ Ascending(tr)
                /\ \A r \in 1..Len(te) :
                     /\ split.out.k_test.sl[SlotOf(j, i)][r] = RowOf(split.X, te[r])
                     /\ split.out.s_test.sl[SlotOf(j, i)][r] = RowOf(split.y, te[r])
                /\ \A r \in 1..Len(tr) :
                     /\ split.out.k_train.sl[SlotOf(j, i)][r] = RowOf(split.X, tr[r])
                     /\ split.out.s_train.sl[SlotOf(j, i)][r] = RowOf(split.y, tr[r])

\* 4 samples in 3 folds without shuffling: fold 0 holds out samples 0 and 3
C12_Witness ==
    /\ SplitDone
    /\ ~split.random
    /\ NRows(split.X) = 4 /\ split.folds = 3
    /\ split.out.test_index[1] = <<0, 3>>
    /\ split.out.train_index[1] = <<1, 2>>
    /\ split.out.train_index[2] = <<0, 2, 3>>

\* the all-zero rows of the kernel and of the signal test tensor
ZeroRowX == [c \in 1..NCols(split.X) |-> 0]

ZeroRowY == [c \in 1..NCols(split.y) |-> ZeroReal]

\* the number of all-zero rows in slot q of the kernel test tensor (the
\* kernels of SplitInit have no zero row of their own)
PadCount(q) ==
    Cardinality({r \in 1..Len(split.out.k_test.sl[q]) :
                     split.out.k_test.sl[q][r] = ZeroRowX})

\* the largest test set among the folds of repeat j
MaxTestSize(j) ==
    CHOOSE z \in 0..NRows(split.X) :
        /\ \E i \in SplitFolds : Len(split.out.test_index[SlotOf(j, i)]) = z
        /\ \A i \in SplitFolds : Len(split.out.test_index[SlotOf(j, i)]) <= z

\* C13 as stated: a slice of the test tensor has a zero pad row (exactly
\* one, the last) only when its fold's test set is smaller than the largest
\* test set of the repeat; a fold with a test set of the largest size has none.
C13_PadOnlySmallerFolds ==
    (SplitDone /\ split.folds >= 2) =>
        \A j \in SplitRepeats : \A i \in SplitFolds :
            IF Len(split.out.test_index[SlotOf(j, i)]) < MaxTestSize(j)
            THEN /\ PadCount(SlotOf(j, i)) = 1
                 /\ split.out.k_test.sl[SlotOf(j, i)]
                        [Len(split.out.k_test.sl[SlotOf(j, i)])] = ZeroRowX
            ELSE PadCount(SlotOf(j, i)) = 0

\* C13 (amended): every slice of the test tensors has floor(n/k)+1 rows: the
\* fold's test samples first, then zero rows; the first (n mod k) folds have
\* no pad row and every other fold has exactly one, also when n mod k = 0 and
\* all test sets have the largest size.
C13_PadRowsBySize ==
    SplitDone =>
        \A j \in SplitRepeats : \A i \in SplitFolds :
            LET q  == SlotOf(j, i)
                te == split.out.test_index[q]
                ts == NRows(split.X) \div split.folds
            IN  /\ Len(split.out.k_test.sl[q]) = ts + 1
                /\ Len(split.out.s_test.sl[q]) = ts + 1
                /\ \A r \in 1..(ts + 1) :
                     IF r <= Len(te)
                     THEN /\ split.out.k_test.sl[q][r] = RowOf(split.X, te[r])
                          /\ split.out.s_test.sl[q][r] = RowOf(split.y, te[r])
                     ELSE /\ split.out.k_test.sl[q][r] = ZeroRowX
                          /\ split.out.s_test.sl[q][r] = ZeroRowY
                /\ PadCount(q) = IF i < NRows(split.X) % split.folds THEN 0 ELSE 1

\* 4 samples in 2 folds: both test sets hold two samples, the largest size,
\* and both slices end with a zero row
C13_Witness ==
    /\ SplitDone
    /\ ~split.random
    /\ NRows(split.X) = 4 /\ split.folds = 2
    /\ split.out.test_index[1] = <<0, 2>>
    /\ split.out.test_index[2] = <<1, 3>>
    /\ split.out.k_test.sl[1] = <<<<1>>, <<3>>, <<0>>>>
    /\ split.out.k_test.sl[2] = <<<<2>>, <<4>>, <<0>>>>

\* C15: without shuffling every repeat is a copy of the first: slot j*k+i
\* of each of the four tensors, and its index arrays, equal slot i.
C15_RepeatsAreCopies ==
    (SplitDone /\ ~split.random) =>
        \A j \in SplitRepeats : \A i \in SplitFolds :
            /\ split.out.k_train.sl[SlotOf(j, i)] = split.out.k_train.sl[SlotOf(0, i)]
            /\ split.out.s_train.sl[SlotOf(j, i)] = split.out.s_train.sl[SlotOf(0, i)]
            /\ split.out.k_test.sl[SlotOf(j, i)] = split.out.k_test.sl[SlotOf(0, i)]
            /\ split.out.s_test.sl[SlotOf(j, i)] = split.out.s_test.sl[SlotOf(0, i)]
            /\ split.out.train_index[SlotOf(j, i)] = split.out.train_index[SlotOf(0, i)]
            /\ split.out.test_index[SlotOf(j, i)] = split.out.test_index[SlotOf(0, i)]

\* the default of LassoFistaCV, two unshuffled repeats, on 3 samples in 2
\* folds: slots 3 and 4 repeat slots 1 and 2
C15_Witness ==
    /\ SplitDone
    /\ ~split.random
    /\ split.repeat_folds = 2
    /\ NRows(split.X) = 3 /\ split.folds = 2
    /\ split.out.k_test.sl[1] = <<<<1>>, <<3>>>>
    /\ split.out.k_test.sl[3] = <<<<1>>, <<3>>>>
    /\ split.out.k_train.sl[4] = <<<<1>>, <<3>>>>

----------------------------------------------------------------------------
(* A further claim about LassoFistaCV. *)

\* C14: a LassoFistaCV.fit that raises leaves f, hyperparameters and opt as
\* they were before the call, and predict returns no value while f is None.
C14_FitLeavesOneSolution ==
    /\ [][(IsCV /\ last'.op = "fit" /\ last'.raised # "no") =>
              /\ self'.f = self.f
              /\ self'.hyperparameters = self.hyperparameters
              /\ self'.opt = self.opt]_vars
    /\ []((IsCV /\ last.op = "predict" /\ last.raised = "no") => self.f # None)

====
